---- MODULE Spec2Model ----
(***************************************************************************)
(* Model of async-runtime/src/runtime.rs: a multi-worker executor.  Tasks  *)
(* enter one shared unbounded ready-queue (spawn, wake_by_ref), workers    *)
(* pop them, lock the task's future, poll it once, and send a Ready result *)
(* on the task's one-slot result channel.  Idle workers park on a shared   *)
(* condition variable with a bounded wait.                                  *)
(***************************************************************************)
EXTENDS Integers, Sequences, FiniteSets, TLC

\* ---- bounds of the model ----
NumWorkers == 2     \* num_worker passed to new_runtime
MaxTasks == 3       \* computations spawned by the runtime's users
MaxWakes == 2       \* wake_by_ref calls ever made
MaxNested == 2      \* computations spawned that call block_on when resumed
MaxFairTasks == 3   \* computations spawned in the fairly scheduled runtime
MaxAmbientTasks == 3 \* computations spawned that use the ambient registration
MaxClosures == 2    \* closures passed to spawn_blocking
MaxBlockingThreads == 1 \* max_blocking_threads passed to new_runtime
MaxSideTasks == 2   \* computations spawned next to the blocking closures

\* Every block_on-calling computation spawns one inner Task.
MaxIds ==
    LET m == IF MaxTasks > MaxFairTasks THEN MaxTasks ELSE MaxFairTasks
        n == IF m > MaxAmbientTasks THEN m ELSE MaxAmbientTasks
    IN  IF n > 2 * MaxNested THEN n ELSE 2 * MaxNested

Workers == 1..NumWorkers
TaskIds == 1..MaxIds
NoTask == 0
NoWorker == 0

\* What a spawned computation does when resumed:
\*   "imm"    returns Ready on its first poll (async { v })
\*   "susp"   returns Pending on its first poll, later Pending or Ready
\*   "nested" calls Handle::block_on on the same runtime from inside its poll
\*   "cur"    calls current() from inside its poll, then returns Ready
\*   "setcur" calls set_current(h) from inside its poll, then returns Ready
Kinds == {"imm", "susp", "nested", "cur", "setcur"}
InnerKinds == {"imm", "susp"}
AmbientKinds == {"cur", "setcur"}

\* Threads: the workers' pool threads, the thread that called new_runtime and
\* one more user thread.
Main == NumWorkers + 1
Other == NumWorkers + 2
UserThreads == {Main, Other}
Threads == Workers \cup UserThreads

\* Handles that can be registered: the one new_runtime returned and the
\* Handle of another runtime.
OurHandle == "h1"
Handles == {"h1", "h2"}

\* Closures passed to spawn_blocking and the values they return.
ClosureIds == 1..MaxClosures
ClosureValues == {42, 7}

VARIABLES
    globalQueue,   \* the shared crossbeam unbounded channel (global_send/global_recv)
    localQueue,    \* Worker.local_queue, one per worker
    cvMutex,       \* condvar.0: the worker holding the parking mutex, or NoWorker
    pc,            \* position of each worker inside Worker::run
    cur,           \* the `task` local of Worker::run (NoTask when None)
    result,        \* the `result` bound by Poll::Ready in Worker::run
    nTasks,        \* number of Tasks built so far; task ids are 1..nTasks
    kind,          \* the computation wrapped by each Task
    inner,         \* for a "nested" task: the Task its block_on spawned
    futureDone,    \* the Task's async block has returned Ready
    futureLock,    \* Task.future (Mutex): the worker holding it, or NoWorker
    poisoned,      \* Task.future was poisoned by a panic under the guard
    resultChan,    \* the bounded(1) result channel of each Task
    handle,        \* the JoinHandle of each Task: "none", "live", "dropped", "joined"
    received,      \* value a join on the Task's handle returned (-1: none)
    polls,         \* history: resumptions started on each Task
    wakes,         \* history: wake_by_ref calls made on each Task
    sends,         \* history: result_sender.send calls that delivered for each Task
    offWake,       \* history: some wake hit the Task while it was not suspended
    submitFailed,  \* some task_sender.send(..).unwrap() panicked
    HANDLE,        \* the HANDLE cells: "none" or the Handle stored in each
    lastSet,       \* history: the Handle last passed to set_current on each thread
    ret,           \* history: outcome of the thread's last current() since its
                   \* last set_current ("not_called", "fatal" or the Handle)
    closureState,  \* each closure given to spawn_blocking: "none", "queued",
                   \* "running", "done" (value in its handle) or "joined"
    closureValue,  \* the value the closure returns (-1: no closure)
    closureJoined  \* the value join returned on the closure's handle (-1: none)

vars == <<globalQueue, localQueue, cvMutex, pc, cur, result, nTasks, kind, inner,
          futureDone, futureLock, poisoned, resultChan, handle, received,
          polls, wakes, sends, offWake, submitFailed, HANDLE, lastSet, ret,
          closureState, closureValue, closureJoined>>

workerVars == <<pc, cur, result>>
taskVars == <<nTasks, kind, inner, handle>>
histVars == <<polls, wakes, sends, offWake>>
ambientVars == <<HANDLE, lastSet, ret>>
poolVars == <<closureState, closureValue, closureJoined>>

\* ---- helpers ----

RECURSIVE SumTo(_, _)
SumTo(f, n) == IF n = 0 THEN 0 ELSE f[n] + SumTo(f, n - 1)

TotalWakes == SumTo(wakes, MaxIds)

RECURSIVE Count(_, _)
Count(q, t) ==
    IF q = <<>> THEN 0
    ELSE (IF Head(q) = t THEN 1 ELSE 0) + Count(Tail(q), t)

\* The value a computation produces: the i-th spawned computation yields i-1
\* (the test scenario's distinct values 0..4).
ValueOf(t) == t - 1

\* Workers whose run loop is alive.  new_runtime drops its own global_recv on
\* return, so the live workers' clones are the only receivers of the queue.
Receivers == {w \in Workers : pc[w] # "crashed"}

\* Workers blocked inside Condvar::wait_timeout.
Waiters == {w \in Workers : pc[w] = "waiting"}

\* A Task is suspended: it was resumed, did not complete, and no resumption
\* of it is in flight.
Suspended(t) == polls[t] > 0 /\ ~futureDone[t] /\ futureLock[t] = NoWorker

\* ---- thread_local! { static HANDLE } ----
\* One cell shared by every thread (a plain static).
process_static(th) == Main

\* The HANDLE cell a thread reads and writes: its own.
thread_local(th) == th

\* ---- new_runtime ----
\* A new_runtime that registers the Handle on the threads it starts as well.
new_runtime_registers_all(th) == OurHandle

\* The registration each thread has when new_runtime returns: set_current is
\* called once, on the calling thread; a pool thread starts with None.
new_runtime_registers(th) == IF th = Main THEN OurHandle ELSE "none"

Init ==
    /\ globalQueue = <<>>
    /\ localQueue = [w \in Workers |-> <<>>]
    /\ cvMutex = NoWorker
    /\ pc = [w \in Workers |-> "check"]
    /\ cur = [w \in Workers |-> NoTask]
    /\ result = [w \in Workers |-> -1]
    /\ nTasks = 0
    /\ kind = [t \in TaskIds |-> "none"]
    /\ inner = [t \in TaskIds |-> NoTask]
    /\ futureDone = [t \in TaskIds |-> FALSE]
    /\ futureLock = [t \in TaskIds |-> NoWorker]
    /\ poisoned = [t \in TaskIds |-> FALSE]
    /\ resultChan = [t \in TaskIds |-> <<>>]
    /\ handle = [t \in TaskIds |-> "none"]
    /\ received = [t \in TaskIds |-> -1]
    /\ polls = [t \in TaskIds |-> 0]
    /\ wakes = [t \in TaskIds |-> 0]
    /\ sends = [t \in TaskIds |-> 0]
    /\ offWake = [t \in TaskIds |-> FALSE]
    /\ submitFailed = FALSE
    /\ HANDLE = [th \in Threads |-> new_runtime_registers(th)]
    /\ lastSet = [th \in Threads |-> IF th = Main THEN OurHandle ELSE "none"]
    /\ ret = [th \in Threads |-> "not_called"]
    /\ closureState = [j \in ClosureIds |-> "none"]
    /\ closureValue = [j \in ClosureIds |-> -1]
    /\ closureJoined = [j \in ClosureIds |-> -1]

\* ---- Condvar::notify_one ----
\* A notification that releases every waiter (notify_all).
notify_all(p, w) ==
    [x \in Workers |-> IF p[x] = "waiting" THEN "woken" ELSE p[x]]


\* The pc after condvar.1.notify_one(): one arbitrary waiter w leaves the wait
\* (w = NoWorker: nobody is waiting and the notification is lost).
notify_one(p, w) ==
    IF w = NoWorker THEN p ELSE [p EXCEPT ![w] = "woken"]

NotifyTargets == IF Waiters = {} THEN {NoWorker} ELSE Waiters

\* ---- crossbeam Sender::send on an unbounded channel ----
\* A send that drops a Task the queue already holds.
send_task_dedup(q, t) == IF Count(q, t) > 0 THEN q ELSE Append(q, t)

\* One entry is appended per call; nothing is merged or dropped.
send_task(q, t) == Append(q, t)

\* A Task wired to the first worker's local sender.
task_sender_local(t) == 1

\* The queue a Task's task_sender feeds: the Handle's clone of the shared
\* sender (NoWorker), never a worker's local sender.
task_sender(t) == NoWorker

\* task_sender.send(task): the queues after Task t was submitted.
submit(t) ==
    IF task_sender(t) = NoWorker
    THEN /\ globalQueue' = send_task(globalQueue, t)
         /\ UNCHANGED localQueue
    ELSE /\ localQueue' = [localQueue EXCEPT ![task_sender(t)] = send_task(@, t)]
         /\ UNCHANGED globalQueue

\* ---- Handle::spawn ----
\* Builds Task number nTasks+1 around a computation of kind k with a fresh
\* bounded(1) result channel, pushes it on the shared queue and notifies one
\* parked worker.  `newpc` is the pc after the call.  The push and the
\* notify_one are one step: a notify_one delayed past other threads' steps
\* moves a waiter exactly as Timeout does, so it adds no behaviour.
spawn(k, newpc) ==
    LET t == nTasks + 1 IN
    /\ nTasks' = t
    /\ kind' = [kind EXCEPT ![t] = k]
    /\ handle' = [handle EXCEPT ![t] = "live"]
    /\ submit(t)
    /\ \E w \in NotifyTargets : pc' = notify_one(newpc, w)

\* Computations of kind k spawned so far.
Spawned(k) == Cardinality({t \in 1..nTasks : kind[t] = k})

\* spawn called from a thread outside the worker pool; at most `max`
\* computations of these kinds are spawned.
Spawn(k, max) ==
    /\ nTasks - Spawned("nested") < max
    /\ Receivers # {}
    /\ spawn(k, pc)
    /\ UNCHANGED <<cvMutex, cur, result, inner, futureDone, futureLock,
                   poisoned, resultChan, received, histVars, submitFailed, ambientVars, poolVars>>

\* task_sender.send(task).unwrap() with every receiver gone: SendError, panic.
\* (Entries still in the disconnected queue are never received; they are left
\* in globalQueue.)
SpawnFails ==
    /\ Receivers = {}
    /\ ~submitFailed
    /\ submitFailed' = TRUE
    /\ UNCHANGED <<globalQueue, localQueue, cvMutex, workerVars, taskVars,
                   futureDone, futureLock, poisoned, resultChan, received, histVars,
                   ambientVars, poolVars>>

\* ---- ArcWake::wake_by_ref ----
\* Any holder of a waker (handed out by a resumption) re-queues the Task and
\* notifies one parked worker.  No check of the Task's state is made.
Wake(t) ==
    /\ t <= nTasks
    /\ polls[t] > 0
    /\ TotalWakes < MaxWakes
    /\ Receivers # {}
    /\ submit(t)
    /\ \E w \in NotifyTargets : pc' = notify_one(pc, w)
    /\ wakes' = [wakes EXCEPT ![t] = @ + 1]
    /\ offWake' = [offWake EXCEPT ![t] = @ \/ ~Suspended(t)]
    /\ UNCHANGED <<cvMutex, cur, result, taskVars, futureDone, futureLock,
                   poisoned, resultChan, received, polls, sends, submitFailed, ambientVars, poolVars>>

WakeFails(t) ==
    /\ t <= nTasks
    /\ polls[t] > 0
    /\ Receivers = {}
    /\ ~submitFailed
    /\ submitFailed' = TRUE
    /\ UNCHANGED <<globalQueue, localQueue, cvMutex, workerVars, taskVars,
                   futureDone, futureLock, poisoned, resultChan, received, histVars,
                   ambientVars, poolVars>>

\* ---- JoinHandle (threadpool.rs): join and drop, from outside the pool ----
IsInner(t) == \E p \in 1..nTasks : inner[p] = t

\* A join that does not wait for the value (try_recv in place of recv).
join_nonblocking(t) ==
    /\ received' = [received EXCEPT ![t] =
                        IF resultChan[t] = <<>> THEN -1 ELSE Head(resultChan[t])]
    /\ resultChan' = [resultChan EXCEPT ![t] = IF @ = <<>> THEN @ ELSE Tail(@)]
    /\ handle' = [handle EXCEPT ![t] = "joined"]

\* join blocks until a value arrives on the result channel, returns it and
\* consumes the handle.
join(t) ==
    /\ resultChan[t] # <<>>
    /\ received' = [received EXCEPT ![t] = Head(resultChan[t])]
    /\ resultChan' = [resultChan EXCEPT ![t] = Tail(@)]
    /\ handle' = [handle EXCEPT ![t] = "joined"]

Join(t) ==
    /\ t <= nTasks
    /\ handle[t] = "live"
    /\ ~IsInner(t)
    /\ join(t)
    /\ UNCHANGED <<globalQueue, localQueue, cvMutex, workerVars, nTasks, kind, inner,
                   futureDone, futureLock, poisoned, histVars, submitFailed, ambientVars, poolVars>>

\* Dropping the JoinHandle disconnects the receive side of the result channel.
DropHandle(t) ==
    /\ t <= nTasks
    /\ handle[t] = "live"
    /\ ~IsInner(t)
    /\ handle' = [handle EXCEPT ![t] = "dropped"]
    /\ UNCHANGED <<globalQueue, localQueue, cvMutex, workerVars, nTasks, kind, inner,
                   futureDone, futureLock, poisoned, resultChan, received, histVars,
                   submitFailed, ambientVars, poolVars>>

\* ---- Worker::run ----
\* A receive from a queue that nothing is ever pushed on.
try_recv_unfed(q) == NoTask

\* crossbeam try_recv: the head of the queue, or Err (NoTask) when empty.
try_recv(q) == IF q = <<>> THEN NoTask ELSE Head(q)

\* Top of the loop: local queue first, then the shared queue, else park.
Check(w) ==
    /\ pc[w] = "check"
    /\ IF try_recv(localQueue[w]) # NoTask
       THEN /\ cur' = [cur EXCEPT ![w] = try_recv(localQueue[w])]
            /\ localQueue' = [localQueue EXCEPT ![w] = Tail(@)]
            /\ pc' = [pc EXCEPT ![w] = "lock_task"]
            /\ UNCHANGED globalQueue
       ELSE IF try_recv(globalQueue) # NoTask
       THEN /\ cur' = [cur EXCEPT ![w] = try_recv(globalQueue)]
            /\ globalQueue' = Tail(globalQueue)
            /\ pc' = [pc EXCEPT ![w] = "lock_task"]
            /\ UNCHANGED localQueue
       ELSE /\ pc' = [pc EXCEPT ![w] = "park_lock"]
            /\ UNCHANGED <<cur, globalQueue, localQueue>>
    /\ UNCHANGED <<cvMutex, result, taskVars, futureDone, futureLock, poisoned,
                   resultChan, received, histVars, submitFailed, ambientVars, poolVars>>

parkFrame == <<globalQueue, localQueue, cur, result, taskVars, futureDone, futureLock,
               poisoned, resultChan, received, histVars, submitFailed, ambientVars, poolVars>>

\* self.condvar.0.lock()
ParkLock(w) ==
    /\ pc[w] = "park_lock"
    /\ cvMutex = NoWorker
    /\ cvMutex' = w
    /\ pc' = [pc EXCEPT ![w] = "park_wait"]
    /\ UNCHANGED parkFrame

\* wait_timeout begins: the mutex is released and the worker waits.
ParkWait(w) ==
    /\ pc[w] = "park_wait"
    /\ cvMutex' = NoWorker
    /\ pc' = [pc EXCEPT ![w] = "waiting"]
    /\ UNCHANGED parkFrame

\* A wait with no timeout (Condvar::wait).
NoTimeout(w) == FALSE

\* The 100 ms of wait_timeout elapse (or the wait ends spuriously).
Timeout(w) ==
    /\ pc[w] = "waiting"
    /\ pc' = [pc EXCEPT ![w] = "woken"]
    /\ UNCHANGED <<cvMutex, parkFrame>>

\* wait_timeout returns once the mutex is re-acquired.
ParkReturn(w) ==
    /\ pc[w] = "woken"
    /\ cvMutex = NoWorker
    /\ cvMutex' = w
    /\ pc' = [pc EXCEPT ![w] = "park_drop"]
    /\ UNCHANGED parkFrame

\* A loop that goes straight back to parking without looking at the queues.
ParkDropRepark(w) ==
    /\ pc[w] = "park_drop"
    /\ cvMutex' = NoWorker
    /\ pc' = [pc EXCEPT ![w] = "park_lock"]
    /\ UNCHANGED parkFrame

\* drop(guard); continue
ParkDrop(w) ==
    /\ pc[w] = "park_drop"
    /\ cvMutex' = NoWorker
    /\ pc' = [pc EXCEPT ![w] = "check"]
    /\ UNCHANGED parkFrame

\* A lock that never excludes anybody.
LockAlwaysFree(t) == TRUE

\* task.future.lock(): free exactly when no worker holds the guard.
LockFree(t) == futureLock[t] = NoWorker

\* A worker that gives up a dequeued Task whose guard is busy (try_lock).
LockTaskTry(w) ==
    LET t == cur[w] IN
    /\ pc[w] = "lock_task"
    /\ IF ~LockFree(t)
       THEN /\ pc' = [pc EXCEPT ![w] = "check"]
            /\ cur' = [cur EXCEPT ![w] = NoTask]
            /\ UNCHANGED <<futureLock, polls>>
       ELSE IF poisoned[t]
       THEN /\ pc' = [pc EXCEPT ![w] = "crashed"]
            /\ UNCHANGED <<futureLock, polls, cur>>
       ELSE /\ pc' = [pc EXCEPT ![w] = "poll"]
            /\ futureLock' = [futureLock EXCEPT ![t] = w]
            /\ polls' = [polls EXCEPT ![t] = @ + 1]
            /\ UNCHANGED cur
    /\ UNCHANGED <<globalQueue, localQueue, cvMutex, result, taskVars, futureDone,
                   poisoned, resultChan, received, wakes, sends, offWake, submitFailed, ambientVars, poolVars>>

\* task.future.lock().unwrap(), then the poll call is entered.  A poisoned
\* mutex makes unwrap panic and the worker's loop ends.
LockTask(w) ==
    LET t == cur[w] IN
    /\ pc[w] = "lock_task"
    /\ LockFree(t)
    /\ IF poisoned[t]
       THEN /\ pc' = [pc EXCEPT ![w] = "crashed"]
            /\ UNCHANGED <<futureLock, polls>>
       ELSE /\ pc' = [pc EXCEPT ![w] = "poll"]
            /\ futureLock' = [futureLock EXCEPT ![t] = w]
            /\ polls' = [polls EXCEPT ![t] = @ + 1]
    /\ UNCHANGED <<globalQueue, localQueue, cvMutex, cur, result, taskVars, futureDone,
                   poisoned, resultChan, received, wakes, sends, offWake, submitFailed, ambientVars, poolVars>>

\* A computation that hands out its value again when polled after completion.
PollReadyAgain(w) ==
    LET t == cur[w] IN
    /\ pc[w] = "poll"
    /\ futureDone[t]
    /\ result' = [result EXCEPT ![w] = ValueOf(t)]
    /\ pc' = [pc EXCEPT ![w] = "send"]
    /\ UNCHANGED <<globalQueue, localQueue, cvMutex, cur, taskVars, futureDone,
                   futureLock, poisoned, resultChan, received, histVars, submitFailed, ambientVars, poolVars>>

\* The async block built by spawn is polled after it returned Ready: it
\* panics ("resumed after completion"); unwinding drops the guard, which
\* poisons the mutex, and drops the Worker with its queue receiver.
PollPanic(w) ==
    LET t == cur[w] IN
    /\ pc[w] = "poll"
    /\ futureDone[t]
    /\ poisoned' = [poisoned EXCEPT ![t] = TRUE]
    /\ futureLock' = [futureLock EXCEPT ![t] = NoWorker]
    /\ pc' = [pc EXCEPT ![w] = "crashed"]
    /\ UNCHANGED <<globalQueue, localQueue, cvMutex, cur, result, taskVars, futureDone,
                   resultChan, received, histVars, submitFailed, ambientVars, poolVars>>

\* Poll::Ready(result)
PollReady(w) ==
    LET t == cur[w] IN
    /\ pc[w] = "poll"
    /\ ~futureDone[t]
    /\ \/ kind[t] = "imm"
       \/ kind[t] = "susp" /\ polls[t] > 1
    /\ futureDone' = [futureDone EXCEPT ![t] = TRUE]
    /\ result' = [result EXCEPT ![w] = ValueOf(t)]
    /\ pc' = [pc EXCEPT ![w] = "send"]
    /\ UNCHANGED <<globalQueue, localQueue, cvMutex, cur, taskVars, futureLock,
                   poisoned, resultChan, received, histVars, submitFailed, ambientVars, poolVars>>

\* A worker that puts a suspended Task back on the queue by itself.
on_pending_requeue(q, t) == Append(q, t)

\* The shared queue after a resumption of t returned Pending: untouched.
on_pending(q, t) == q

\* A guard that outlives the loop iteration.
keep_guard(w) == w

\* The holder of Task.future once the MutexGuard `future` goes out of scope
\* at the end of the `if let Some(task)` block.
drop_guard(w) == NoWorker

\* Poll::Pending: the guard is dropped and the loop starts over.
PollPending(w) ==
    LET t == cur[w] IN
    /\ pc[w] = "poll"
    /\ ~futureDone[t]
    /\ kind[t] = "susp"
    /\ globalQueue' = on_pending(globalQueue, t)
    /\ futureLock' = [futureLock EXCEPT ![t] = drop_guard(w)]
    /\ cur' = [cur EXCEPT ![w] = NoTask]
    /\ pc' = [pc EXCEPT ![w] = "check"]
    /\ UNCHANGED <<localQueue, cvMutex, result, taskVars, futureDone, poisoned,
                   resultChan, received, histVars, submitFailed, ambientVars, poolVars>>

\* ---- Handle::block_on called by the computation being resumed ----
\* self.spawn(future): the inner Task is queued; the worker then sits in join.
PollBlockOn(w, k) ==
    LET t == cur[w] IN
    /\ pc[w] = "poll"
    /\ ~futureDone[t]
    /\ kind[t] = "nested"
    /\ inner[t] = NoTask
    /\ spawn(k, [pc EXCEPT ![w] = "join"])
    /\ inner' = [inner EXCEPT ![t] = nTasks + 1]
    /\ UNCHANGED <<cvMutex, cur, result, futureDone, futureLock, poisoned,
                   resultChan, received, histVars, submitFailed, ambientVars, poolVars>>

\* A block_on that looks at the result channel once instead of waiting.
JoinInnerNoWait(w) ==
    LET t == cur[w]
        i == inner[t] IN
    /\ pc[w] = "join"
    /\ join_nonblocking(i)
    /\ futureDone' = [futureDone EXCEPT ![t] = TRUE]
    /\ result' = [result EXCEPT ![w] = received'[i]]
    /\ pc' = [pc EXCEPT ![w] = "send"]
    /\ UNCHANGED <<globalQueue, localQueue, cvMutex, cur, nTasks, kind, inner,
                   futureLock, poisoned, histVars, submitFailed, ambientVars, poolVars>>

\* .join() returns the inner value; the outer computation completes with it.
JoinInner(w) ==
    LET t == cur[w]
        i == inner[t] IN
    /\ pc[w] = "join"
    /\ join(i)
    /\ futureDone' = [futureDone EXCEPT ![t] = TRUE]
    /\ result' = [result EXCEPT ![w] = received'[i]]
    /\ pc' = [pc EXCEPT ![w] = "send"]
    /\ UNCHANGED <<globalQueue, localQueue, cvMutex, cur, nTasks, kind, inner,
                   futureLock, poisoned, histVars, submitFailed, ambientVars, poolVars>>

\* One result channel shared by every Task.
result_sender_shared(t) == 1

\* The channel a Task's result_sender feeds: the Task's own.
result_sender(t) == t

\* A send whose Err is unwrapped.
after_send_err_unwrap == "crashed"

\* Where the loop goes after result_sender.send returned Err (`let _ =`).
after_send_err == "check"

\* result_sender.send(result) on the bounded(1) channel: Err when the receive
\* side is gone, otherwise it needs the slot to be free.  Then the guard and
\* the Task reference are dropped at the end of the loop body.
Send(w) ==
    LET t == cur[w]
        c == result_sender(t) IN
    /\ pc[w] = "send"
    /\ IF handle[c] # "live"
       THEN /\ pc' = [pc EXCEPT ![w] = after_send_err]
            /\ UNCHANGED <<resultChan, sends>>
       ELSE /\ Len(resultChan[c]) = 0
            /\ resultChan' = [resultChan EXCEPT ![c] = <<result[w]>>]
            /\ sends' = [sends EXCEPT ![c] = @ + 1]
            /\ pc' = [pc EXCEPT ![w] = "check"]
    /\ futureLock' = [futureLock EXCEPT ![t] = drop_guard(w)]
    /\ cur' = [cur EXCEPT ![w] = NoTask]
    /\ result' = [result EXCEPT ![w] = -1]
    /\ UNCHANGED <<globalQueue, localQueue, cvMutex, taskVars, futureDone, poisoned,
                   received, polls, wakes, offWake, submitFailed, ambientVars, poolVars>>

\* One step of Worker::run on computations that do not call back into the
\* runtime.
RunStep(w) ==
    \/ Check(w)
    \/ ParkLock(w)
    \/ ParkWait(w)
    \/ Timeout(w)
    \/ ParkReturn(w)
    \/ ParkDrop(w)
    \/ LockTask(w)
    \/ PollReady(w)
    \/ PollPending(w)
    \/ Send(w)

\* The runtime under arbitrary users: spawns, wakes at any time, joins, drops.
Next ==
    \/ \E k \in InnerKinds : Spawn(k, MaxTasks)
    \/ SpawnFails
    \/ \E t \in TaskIds : Wake(t)
    \/ \E t \in TaskIds : WakeFails(t)
    \/ \E t \in TaskIds : Join(t)
    \/ \E t \in TaskIds : DropHandle(t)
    \/ \E w \in Workers : RunStep(w)
    \/ \E w \in Workers : PollPanic(w)

Spec == Init /\ [][Next]_vars

\* The runtime when the spawned computations call block_on on it.
SpawnNested ==
    /\ Spawned("nested") < MaxNested
    /\ Receivers # {}
    /\ spawn("nested", pc)
    /\ UNCHANGED <<cvMutex, cur, result, inner, futureDone, futureLock,
                   poisoned, resultChan, received, histVars, submitFailed, ambientVars, poolVars>>

NextBlockOn ==
    \/ SpawnNested
    \/ \E t \in TaskIds : Wake(t)
    \/ \E t \in TaskIds : Join(t)
    \/ \E w \in Workers : RunStep(w)
    \/ \E w \in Workers : PollPanic(w)
    \/ \E w \in Workers, k \in InnerKinds : PollBlockOn(w, k)
    \/ \E w \in Workers : JoinInner(w)

SpecBlockOn == Init /\ [][NextBlockOn]_vars

\* ---- current / set_current ----
\* HANDLE.with(|h| h.borrow().clone().expect(..)): the Handle in the calling
\* thread's cell, or a panic ("fatal") when the cell holds None.
current(th) ==
    IF HANDLE[thread_local(th)] = "none" THEN "fatal" ELSE HANDLE[thread_local(th)]

\* *h.borrow_mut() = Some(handle) on the calling thread's cell.
set_current(th, h) ==
    /\ HANDLE' = [HANDLE EXCEPT ![thread_local(th)] = h]
    /\ lastSet' = [lastSet EXCEPT ![th] = h]
    /\ ret' = [ret EXCEPT ![th] = "not_called"]

runtimeVars == <<globalQueue, localQueue, cvMutex, workerVars, taskVars, futureDone,
                 futureLock, poisoned, resultChan, received, histVars, submitFailed>>

\* set_current called on a user thread (one whose current() has not panicked).
SetCurrent(th, h) ==
    /\ ret[th] # "fatal"
    /\ set_current(th, h)
    /\ UNCHANGED <<runtimeVars, poolVars>>

\* current() called on a user thread.
Current(th) ==
    /\ ret[th] # "fatal"
    /\ ret' = [ret EXCEPT ![th] = current(th)]
    /\ UNCHANGED <<runtimeVars, HANDLE, lastSet, poolVars>>

\* The computation being resumed calls current() on the worker's thread.  The
\* panic of expect unwinds through the poll: the guard is dropped poisoned
\* and the worker's loop ends; otherwise the computation completes.
PollCurrent(w) ==
    LET t == cur[w] IN
    /\ pc[w] = "poll"
    /\ ~futureDone[t]
    /\ kind[t] = "cur"
    /\ ret' = [ret EXCEPT ![w] = current(w)]
    /\ IF current(w) = "fatal"
       THEN /\ poisoned' = [poisoned EXCEPT ![t] = TRUE]
            /\ futureLock' = [futureLock EXCEPT ![t] = NoWorker]
            /\ pc' = [pc EXCEPT ![w] = "crashed"]
            /\ UNCHANGED <<futureDone, result>>
       ELSE /\ futureDone' = [futureDone EXCEPT ![t] = TRUE]
            /\ result' = [result EXCEPT ![w] = ValueOf(t)]
            /\ pc' = [pc EXCEPT ![w] = "send"]
            /\ UNCHANGED <<poisoned, futureLock>>
    /\ UNCHANGED <<globalQueue, localQueue, cvMutex, cur, taskVars, resultChan,
                   received, histVars, submitFailed, HANDLE, lastSet, poolVars>>

\* The computation being resumed calls set_current(h) on the worker's thread
\* and completes.
PollSetCurrent(w, h) ==
    LET t == cur[w] IN
    /\ pc[w] = "poll"
    /\ ~futureDone[t]
    /\ kind[t] = "setcur"
    /\ set_current(w, h)
    /\ futureDone' = [futureDone EXCEPT ![t] = TRUE]
    /\ result' = [result EXCEPT ![w] = ValueOf(t)]
    /\ pc' = [pc EXCEPT ![w] = "send"]
    /\ UNCHANGED <<globalQueue, localQueue, cvMutex, cur, taskVars, futureLock,
                   poisoned, resultChan, received, histVars, submitFailed, poolVars>>

\* The runtime when user threads and spawned computations use the ambient
\* registration.
NextAmbient ==
    \/ \E k \in AmbientKinds : Spawn(k, MaxAmbientTasks)
    \/ \E th \in UserThreads, h \in Handles : SetCurrent(th, h)
    \/ \E th \in UserThreads : Current(th)
    \/ \E w \in Workers : Check(w)
    \/ \E w \in Workers : ParkLock(w)
    \/ \E w \in Workers : ParkWait(w)
    \/ \E w \in Workers : Timeout(w)
    \/ \E w \in Workers : ParkReturn(w)
    \/ \E w \in Workers : ParkDrop(w)
    \/ \E w \in Workers : LockTask(w)
    \/ \E w \in Workers : PollCurrent(w)
    \/ \E w \in Workers, h \in Handles : PollSetCurrent(w, h)
    \/ \E w \in Workers : Send(w)

SpecAmbient == Init /\ [][NextAmbient]_vars

\* ---- Handle::spawn_blocking and the thread pool (threadpool.rs) ----
\* A spawn_blocking that wraps the closure in a Task and submits it to the
\* workers' queue.
SpawnBlockingAsTask(v) ==
    \E j \in ClosureIds :
        /\ closureState[j] = "none"
        /\ \A i \in 1..(j - 1) : closureState[i] # "none"
        /\ nTasks < MaxIds
        /\ closureState' = [closureState EXCEPT ![j] = "queued"]
        /\ closureValue' = [closureValue EXCEPT ![j] = v]
        /\ spawn("imm", pc)
        /\ UNCHANGED <<cvMutex, cur, result, inner, futureDone, futureLock, poisoned,
                       resultChan, received, histVars, submitFailed, ambientVars,
                       closureJoined>>

\* self.thread_pool.spawn_blocking(task): the closure is handed to the pool
\* and the pool's join handle is returned.  Nothing of the runtime is touched.
SpawnBlocking(v) ==
    \E j \in ClosureIds :
        /\ closureState[j] = "none"
        /\ \A i \in 1..(j - 1) : closureState[i] # "none"
        /\ closureState' = [closureState EXCEPT ![j] = "queued"]
        /\ closureValue' = [closureValue EXCEPT ![j] = v]
        /\ UNCHANGED <<runtimeVars, ambientVars, closureJoined>>

\* A pool thread that hosts no Worker loop picks the closure up.
PoolRun(j) ==
    /\ closureState[j] = "queued"
    /\ Cardinality({i \in ClosureIds : closureState[i] = "running"}) < MaxBlockingThreads
    /\ closureState' = [closureState EXCEPT ![j] = "running"]
    /\ UNCHANGED <<runtimeVars, ambientVars, closureValue, closureJoined>>

\* The closure returns; its value is handed to its join handle.
PoolFinish(j) ==
    /\ closureState[j] = "running"
    /\ closureState' = [closureState EXCEPT ![j] = "done"]
    /\ UNCHANGED <<runtimeVars, ambientVars, closureValue, closureJoined>>

\* join on the closure's handle: blocks until the closure has returned and
\* yields its value.
JoinBlocking(j) ==
    /\ closureState[j] = "done"
    /\ closureState' = [closureState EXCEPT ![j] = "joined"]
    /\ closureJoined' = [closureJoined EXCEPT ![j] = closureValue[j]]
    /\ UNCHANGED <<runtimeVars, ambientVars, closureValue>>

\* The runtime when blocking closures are submitted next to computations.
NextBlocking ==
    \/ \E k \in InnerKinds : Spawn(k, MaxSideTasks)
    \/ \E v \in ClosureValues : SpawnBlocking(v)
    \/ \E j \in ClosureIds : PoolRun(j)
    \/ \E j \in ClosureIds : PoolFinish(j)
    \/ \E j \in ClosureIds : JoinBlocking(j)
    \/ \E w \in Workers : RunStep(w)

SpecBlocking == Init /\ [][NextBlocking]_vars

\* The runtime with fairly scheduled worker threads, users that keep their
\* join handles, and a well-behaved wake source: a Task is woken once per
\* suspension, while it is suspended.
WakeSuspended(t) ==
    /\ Suspended(t)
    /\ Count(globalQueue, t) = 0
    /\ \A w \in Workers : cur[w] # t
    /\ Wake(t)

\* The computation's wake source fires while the computation is being resumed
\* for the first time: the waker handed to that poll is invoked from another
\* thread before the poll has returned Pending.
WakeResuming(t) ==
    /\ kind[t] = "susp"
    /\ polls[t] = 1
    /\ wakes[t] = 0
    /\ \E w \in Workers : pc[w] = "poll" /\ cur[w] = t
    /\ Wake(t)

NextFair ==
    \/ \E k \in InnerKinds : Spawn(k, MaxFairTasks)
    \/ \E t \in TaskIds : WakeSuspended(t)
    \/ \E t \in TaskIds : WakeResuming(t)
    \/ \E w \in Workers : RunStep(w)

\* Every worker is an OS thread that keeps running; a contended parking
\* mutex is eventually handed to each thread that asks for it.
Fairness ==
    \A w \in Workers :
        /\ WF_vars(RunStep(w))
        /\ SF_vars(ParkLock(w) \/ ParkReturn(w))

FairSpec == Init /\ [][NextFair]_vars /\ Fairness

\* ======================= properties =======================

\* Worker w holds the guard of Task t: it is inside the resumption of t (or
\* delivering its result, still under the guard).
Resuming(w, t) == cur[w] = t /\ pc[w] \in {"poll", "join", "send"}

\* C1: in every reachable state at most one worker is inside a resumption of
\* any given Task, whatever the interleaving of spawn, wake and worker steps.
C1_SinglePoller ==
    \A t \in TaskIds : Cardinality({w \in Workers : Resuming(w, t)}) <= 1

\* A wake issued during a resumption put a second entry of the Task in front
\* of another worker, which now waits for the guard.
C1_Witness ==
    \E t \in TaskIds : \E w1, w2 \in Workers :
        /\ pc[w1] = "poll" /\ cur[w1] = t
        /\ pc[w2] = "lock_task" /\ cur[w2] = t

\* C2: a computation woken two or more times, always while suspended,
\* completes exactly once: its result is sent at most once and no worker
\* crashes on it.
C2_WokenTwiceCompletesOnce ==
    \A t \in TaskIds :
        (wakes[t] >= 2 /\ ~offWake[t]) =>
            /\ sends[t] <= 1
            /\ \A w \in Workers : ~(pc[w] = "crashed" /\ cur[w] = t)

\* C3: once a resumption of a Task returned Completed, no worker is ever
\* inside a poll of that Task's computation again.
C3_NoPollAfterCompleted ==
    \A w \in Workers : pc[w] = "poll" => ~futureDone[cur[w]]

\* C6: a computation that suspended and was never woken has no queue entry,
\* is resumed no second time, never completes and delivers nothing.
C6_SuspendedStaysSuspended ==
    \A t \in TaskIds :
        (kind[t] = "susp" /\ wakes[t] = 0) =>
            /\ polls[t] <= 1
            /\ ~futureDone[t]
            /\ sends[t] = 0
            /\ resultChan[t] = <<>>
            /\ polls[t] = 1 =>
                  /\ Count(globalQueue, t) = 0
                  /\ \A w \in Workers : ~(pc[w] = "lock_task" /\ cur[w] = t)

C6_Witness ==
    \E t \in TaskIds : kind[t] = "susp" /\ wakes[t] = 0 /\ Suspended(t)

\* C7: every join handle receives exactly the value of the computation it
\* was returned for: a channel only ever holds its own Task's value, a join
\* returns that value, a completed Task's value is in its channel until it
\* is joined, and nothing is delivered twice.
C7_ResultsMatch ==
    \A t \in TaskIds :
        /\ resultChan[t] \in {<<>>, <<ValueOf(t)>>}
        /\ received[t] \in {-1, ValueOf(t)}
        /\ handle[t] = "joined" => received[t] = ValueOf(t)
        /\ sends[t] <= 1
        /\ (futureDone[t] /\ handle[t] = "live" /\ futureLock[t] = NoWorker)
             => resultChan[t] = <<ValueOf(t)>>

\* All MaxTasks immediately-completing computations were joined, each handle
\* yielding its own value.
C7_Witness ==
    \A t \in 1..MaxTasks :
        kind[t] = "imm" /\ handle[t] = "joined" /\ received[t] = t - 1

\* C8: dropping a join handle cancels nothing, and a worker whose send finds
\* the receive side gone delivers nothing and goes back to the top of its
\* loop.
C8_DroppedHandleIsSilent ==
    [][ /\ \A t \in TaskIds :
              (handle[t] = "live" /\ handle'[t] = "dropped") =>
                  /\ globalQueue' = globalQueue
                  /\ futureDone' = futureDone
                  /\ pc' = pc
        /\ \A w \in Workers :
              (pc[w] = "send" /\ handle[cur[w]] = "dropped") =>
                  /\ pc'[w] \in {"send", "check"}
                  /\ resultChan'[cur[w]] = resultChan[cur[w]]
                  /\ sends'[cur[w]] = sends[cur[w]] ]_vars

\* A Task whose handle was dropped has completed without a delivery, and a
\* worker is resuming another Task.
C8_Witness ==
    \E t \in TaskIds : \E w \in Workers :
        /\ handle[t] = "dropped" /\ futureDone[t] /\ sends[t] = 0
        /\ futureLock[t] = NoWorker
        /\ pc[w] = "poll" /\ cur[w] # t /\ cur[w] > t

\* C9: no submission (spawn or wake) ever fails.
C9_SubmitNeverFails == ~submitFailed

\* C4: when more immediately-completing computations are spawned than there
\* are workers, under fair scheduling every one of them is eventually
\* resumed and completes, and none is resumed more than once.
C4_AllImmediateComplete ==
    /\ [](\A t \in TaskIds : kind[t] = "imm" => polls[t] <= 1)
    /\ \A t \in TaskIds : (kind[t] = "imm") ~> (futureDone[t] /\ polls[t] = 1)

\* More immediately-completing computations than workers were spawned and
\* all have completed.
C4_Witness ==
    /\ nTasks > NumWorkers
    /\ \A t \in 1..nTasks : kind[t] = "imm" /\ futureDone[t] /\ polls[t] = 1

\* C5: no worker stays in the condition-variable wait while the shared queue
\* holds a Task, and every queued Task is eventually dequeued.
C5_NoIndefinitePark ==
    /\ \A w \in Workers :
          (pc[w] = "waiting" /\ globalQueue # <<>>) ~> (pc[w] = "check")
    /\ \A t \in TaskIds :
          (Count(globalQueue, t) > 0) ~> (Count(globalQueue, t) = 0)

\* The missed notification: every worker waits on the condition variable
\* while a Task sits in the shared queue (its notify_one found no waiter).
C5_Witness ==
    /\ globalQueue # <<>>
    /\ \A w \in Workers : pc[w] = "waiting"

\* Every worker is blocked in the join of a block_on whose inner Task has
\* delivered nothing.
Starved ==
    \A w \in Workers : pc[w] = "join" /\ resultChan[inner[cur[w]]] = <<>>

\* C10: block_on called from inside a resumption is not guarded: once every
\* worker is blocked in such a block_on, no worker ever leaves it, no Task is
\* resumed or completes, and the queued Tasks stay queued.
C10_BlockOnStarvation ==
    [][Starved =>
         /\ Starved'
         /\ polls' = polls
         /\ futureDone' = futureDone
         /\ \A i \in 1..Len(globalQueue) : globalQueue'[i] = globalQueue[i]]_vars

\* All workers are blocked in block_on and each inner Task sits in the
\* ready-queue, never resumed.
C10_Witness ==
    /\ Starved
    /\ \A w \in Workers :
          /\ Count(globalQueue, inner[cur[w]]) = 1
          /\ polls[inner[cur[w]]] = 0

\* Task t suspended in its first resumption and a wake arrived during that
\* resumption.
WokenWhileResumed(t) == offWake[t] /\ Suspended(t) /\ polls[t] = 1

\* C13: a wake invoked on a Task while a worker is resuming it, when that
\* resumption then returns Pending, is not lost: its queue entry is still
\* there (queued, or held by a worker about to lock the Task) when the
\* resumption has returned, and under fair scheduling of the workers the Task
\* is resumed again.
C13_WakeDuringResumption ==
    /\ [](\A t \in TaskIds :
            WokenWhileResumed(t) =>
               Count(globalQueue, t)
                 + Cardinality({w \in Workers : pc[w] = "lock_task" /\ cur[w] = t}) = 1)
    /\ \A t \in TaskIds : WokenWhileResumed(t) ~> (polls[t] >= 2)

\* The Task woken during its first resumption, which returned Pending, is
\* being resumed a second time.
C13_Witness ==
    \E t \in TaskIds : \E w \in Workers :
        /\ offWake[t] /\ wakes[t] = 1 /\ polls[t] = 2
        /\ pc[w] = "poll" /\ cur[w] = t

\* What current() must yield on a thread, by the set_current calls made on
\* that thread alone.
Registered(th) == IF lastSet[th] = "none" THEN "fatal" ELSE lastSet[th]

\* C11: on every thread current() returns the Handle that the last
\* set_current on that same thread installed, and fails fatally when
\* set_current was never called on that thread, whatever other threads have
\* registered; each thread's cell holds what was last installed on it.
C11_AmbientPerThread ==
    \A th \in Threads :
        /\ ret[th] # "not_called" => ret[th] = Registered(th)
        /\ HANDLE[th] = lastSet[th]

\* The thread that called new_runtime replaced its registration and reads the
\* replacement back, while current() failed on the other user thread, which
\* never registered anything.
C11_Witness ==
    /\ ret[Main] = "h2" /\ lastSet[Main] = "h2"
    /\ ret[Other] = "fatal" /\ lastSet[Other] = "none"

\* C18: when new_runtime has returned only the calling thread is registered;
\* a worker thread has a registration only once set_current was called on it,
\* and a computation that calls current() while resumed on a worker that
\* never called set_current panics and takes the worker down, while after a
\* set_current on that worker it gets the Handle installed there.
C18_WorkersUnregistered ==
    /\ HANDLE[Main] # "none"
    /\ \A w \in Workers :
          /\ lastSet[w] = "none" =>
                (HANDLE[w] = "none" /\ ret[w] \in {"not_called", "fatal"})
          /\ ret[w] = "fatal" =>
                (lastSet[w] = "none" /\ pc[w] = "crashed" /\ poisoned[cur[w]])
          /\ (lastSet[w] # "none" /\ ret[w] # "not_called") => ret[w] = lastSet[w]

\* A computation calling current() crashed one worker that had no
\* registration, and on another worker, where a computation had called
\* set_current before, current() returned the installed Handle.
C18_Witness ==
    \E w1, w2 \in Workers :
        /\ pc[w1] = "crashed" /\ ret[w1] = "fatal" /\ kind[cur[w1]] = "cur"
        /\ ret[w2] \in Handles /\ lastSet[w2] = ret[w2]
        /\ HANDLE[Main] = OurHandle

\* C12: a spawn_blocking call creates no Task, pushes nothing on the shared
\* queue or a local queue and takes no worker out of its wait; the closure
\* advances only by the thread pool's steps, never by a step of a worker
\* loop; and the join on its handle yields the value the closure returned.
C12_BlockingBypassesScheduler ==
    [][ /\ (closureState' # closureState) =>
              /\ UNCHANGED <<nTasks, kind, globalQueue, localQueue, cvMutex>>
              /\ UNCHANGED <<pc, cur, result, polls, futureLock, resultChan>>
        /\ (pc' # pc \/ cur' # cur) => UNCHANGED poolVars
        /\ \A j \in ClosureIds :
              (closureState[j] # "joined" /\ closureState'[j] = "joined")
                 => (closureJoined'[j] = closureValue[j] /\ closureValue[j] \in ClosureValues)
      ]_vars

\* A closure returning 42 was joined and yielded 42 although no Task was
\* ever created and every worker waits on the parking signal; the other
\* closure returns another value.
C12_Witness ==
    \E j \in ClosureIds :
        /\ closureState[j] = "joined" /\ closureValue[j] = 42 /\ closureJoined[j] = 42
        /\ \E i \in ClosureIds : closureValue[i] = 7
        /\ nTasks = 0 /\ globalQueue = <<>>
        /\ \A w \in Workers : pc[w] = "waiting"

\* The positions of Worker::run on the empty-queue branch.
ParkStates == {"park_lock", "park_wait", "waiting", "woken", "park_drop"}

\* C14: a computation that suspended completes no earlier than a wake on it,
\* and a woken Task waits for at most one condition-variable wait of any
\* worker: a wake's notify_one ends the wait of a waiting worker, a worker
\* whose wait ended (notified or timed out) goes to the top of the loop
\* without waiting again, and a worker at the top of the loop that finds the
\* shared queue non-empty dequeues its head instead of parking.
C14_OneWaitLatency ==
    [][ /\ \A w \in Workers :
              /\ (pc[w] = "check" /\ pc'[w] # "check"
                    /\ globalQueue # <<>> /\ localQueue[w] = <<>>)
                   => (pc'[w] = "lock_task" /\ cur'[w] = Head(globalQueue))
              /\ (pc[w] = "waiting" /\ pc'[w] # "waiting") => pc'[w] = "woken"
              /\ (pc[w] = "woken" /\ pc'[w] # "woken") => pc'[w] = "park_drop"
              /\ (pc[w] = "park_drop" /\ pc'[w] # "park_drop") => pc'[w] = "check"
        /\ (wakes' # wakes /\ Waiters # {})
             => \E w \in Waiters : pc'[w] = "woken"
        /\ \A t \in TaskIds :
              (kind[t] = "susp" /\ ~futureDone[t] /\ futureDone'[t])
                 => wakes[t] >= 1 ]_vars

\* A computation suspended once and was woken once while every worker was
\* idle; the notified worker has left its wait and the Task is still queued.
C14_Witness ==
    \E t \in TaskIds : \E w \in Workers :
        /\ kind[t] = "susp" /\ Suspended(t) /\ wakes[t] = 1 /\ ~offWake[t]
        /\ Count(globalQueue, t) = 1
        /\ pc[w] = "woken"
        /\ \A x \in Workers : pc[x] \in ParkStates

\* C15: every worker's local queue is empty in every reachable state, and
\* every Task a worker takes up was the head of the shared queue.
C15_LocalQueueUnused ==
    [][ /\ \A w \in Workers : localQueue[w] = <<>> /\ localQueue'[w] = <<>>
        /\ \A w \in Workers :
              (cur'[w] # cur[w] /\ cur'[w] # NoTask) =>
                  /\ globalQueue # <<>>
                  /\ cur'[w] = Head(globalQueue)
                  /\ globalQueue' = Tail(globalQueue) ]_vars

\* A worker is resuming a woken Task that it took from the shared queue.
C15_Witness ==
    \E w \in Workers :
        /\ pc[w] = "poll" /\ wakes[cur[w]] > 0 /\ polls[cur[w]] > 1
        /\ localQueue[w] = <<>>

\* C16: a worker that goes through the parking branch while it finds no work
\* changes no queue, no Task and no result channel, and every spawn or wake
\* takes exactly one waiting worker out of its wait when there is one (and
\* never more than one).
C16_SpuriousWakeHarmless ==
    [][ /\ \A w \in Workers :
              (/\ pc[w] \in ParkStates
                     \/ (pc[w] = "check" /\ globalQueue = <<>> /\ localQueue[w] = <<>>)
               /\ pc'[w] # pc[w]
               /\ nTasks' = nTasks /\ wakes' = wakes)
                => /\ pc'[w] \in ParkStates \/ pc'[w] = "check"
                   /\ UNCHANGED <<globalQueue, localQueue, cur, result, taskVars,
                                  futureDone, futureLock, poisoned, resultChan,
                                  received, histVars>>
        /\ Cardinality({w \in Workers : pc[w] = "waiting" /\ pc'[w] = "woken"}) <= 1
        /\ ((nTasks' # nTasks \/ wakes' # wakes) /\ Waiters # {})
             => Cardinality({w \in Workers : pc[w] = "waiting" /\ pc'[w] = "woken"}) = 1
      ]_vars

\* A worker that left its wait finds both queues empty while another worker
\* is still waiting.
C16_Witness ==
    \E w \in Workers :
        /\ pc[w] = "park_drop"
        /\ globalQueue = <<>> /\ localQueue[w] = <<>>
        /\ \E x \in Workers : x # w /\ pc[x] = "waiting"
        /\ nTasks > 0

\* Workers that dequeued an entry of Task t and ended on its poisoned guard
\* before starting a resumption: all crashes on t but the first.
LockCrashes(t) ==
    LET n == Cardinality({w \in Workers : pc[w] = "crashed" /\ cur[w] = t})
    IN  IF n > 0 THEN n - 1 ELSE 0

\* C17: for every Task the entries pushed (one by its spawn, one per wake)
\* are each either still queued, held by a worker about to lock the Task, or
\* were turned into exactly one resumption attempt: attempts never exceed
\* 1 + wakes, and no entry is merged with another or dropped.
C17_EntriesAccounted ==
    \A t \in TaskIds :
        LET made == IF t <= nTasks THEN 1 + wakes[t] ELSE 0
            pend == Count(globalQueue, t)
                      + Cardinality({w \in Workers : pc[w] = "lock_task" /\ cur[w] = t})
        IN  /\ polls[t] <= made
            /\ polls[t] + pend + LockCrashes(t) = made

\* A Task was woken twice while one entry was still queued: both entries
\* exist side by side.
C17_Witness ==
    \E t \in TaskIds : wakes[t] = 2 /\ Count(globalQueue, t) = 2 /\ polls[t] = 1

\* C19: no worker holds the parking mutex and a Task guard together; a
\* worker on the parking branch holds no Task and no Task guard; the parking
\* mutex is held only on the parking branch and a Task guard only between
\* the lock of a dequeued Task and the end of that loop iteration.
C19_NoLockOverlap ==
    \A w \in Workers :
        /\ cvMutex = w => pc[w] \in {"park_wait", "park_drop"}
        /\ pc[w] \in ParkStates =>
              (cur[w] = NoTask /\ \A t \in TaskIds : futureLock[t] # w)
        /\ \A t \in TaskIds :
              futureLock[t] = w => (cur[w] = t /\ pc[w] \in {"poll", "join", "send"})

\* One worker holds the parking mutex while another holds a Task guard.
C19_Witness ==
    \E w1, w2 \in Workers : \E t \in TaskIds :
        w1 # w2 /\ cvMutex = w1 /\ futureLock[t] = w2

\* C20: whenever a worker is about to send a Task's result and the receive
\* side is attached, the one-slot result channel is empty: the send never
\* waits for room.
C20_SendNeverBlocks ==
    \A w \in Workers :
        (pc[w] = "send" /\ handle[cur[w]] = "live") => resultChan[cur[w]] = <<>>

\* A worker is about to deliver the result of a Task that still has another
\* entry in the shared queue.
C20_Witness ==
    \E w \in Workers :
        /\ pc[w] = "send" /\ handle[cur[w]] = "live"
        /\ Count(globalQueue, cur[w]) > 0

====
